---- MODULE Spec2Model ----
(***************************************************************************)
(* yutto download / buffer / merge engine.                                 *)
(*                                                                         *)
(* One episode job run by start_downloader: selection, the download phase  *)
(* (download_video_and_audio: open buffers, probe sizes, slice_blocks,     *)
(* xmerge, asyncio.gather over the fetch coroutines and show_progress,     *)
(* close), and the merge phase (merge_video_and_audio).                    *)
(* Spec follows one job through every step of its download with the       *)
(* default save codecs; JobSpec runs several jobs one after another on    *)
(* the same options over every codec and container setting, with streams  *)
(* of one byte.                                                            *)
(*                                                                         *)
(* AsyncFileBuffer, Fetcher, xmerge, show_progress and FFmpeg live outside *)
(* the files at hand; they follow the design document (sections 4.2-4.6).  *)
(* A byte of a temp file is TRUE when it holds the expected content of     *)
(* that offset and FALSE when it is a hole.                                *)
(***************************************************************************)
EXTENDS Integers, Sequences, FiniteSets

\* ---------------------------------------------------------------- bounds
MaxSize == 4
MaxBlock == 2
MaxWorkers == 2
MaxResume == 2
MaxJobs == 2

\* Python's None, for a size that is unknown or a block size that is unset.
None == -1

Streams == {"video", "audio"}

VARIABLES
    pc,             \* position of start_downloader / download_video_and_audio
    failure,        \* the exception that left the job, "none" while there is none
    options,        \* DownloaderOptions: num_workers, block_size, overwrite,
                    \* video_save_codec, audio_save_codec, output_format,
                    \* output_format_audio_only, require_video, require_audio
    episode,        \* codec of select_video(...) / select_audio(...), or "none"
    will_download,  \* video / audio is not None after lines 273-274
    output_exists,  \* output_path.exists()
    tmp_file,       \* the per-stream temp files on disk
    buffers,        \* the AsyncFileBuffer of each stream
    content_length, \* what Fetcher.get_size answers for each stream's url
    sizes,          \* sizes[...] of download_video_and_audio
    coroutines_list, \* the per-stream lists of fetch coroutines
    coroutines,     \* the fetch coroutines handed to asyncio.gather
    progress,       \* the show_progress coroutine
    semaphore,      \* free permits of Fetcher.semaphore
    network_used,   \* some HTTP request was issued
    merge_invoked,  \* merge_video_and_audio was entered
    returncode,     \* exit status of the muxer process, None before it ran
    output_format,  \* extension of output_path, "none" before it is chosen
    args_list,      \* the arguments of the last ffmpeg.exec, flattened
    jobs_run,       \* jobs started so far on this options object
    configured      \* options as the user configured them

vars == <<pc, failure, options, episode, will_download, output_exists, tmp_file,
          buffers, sizes, coroutines_list, coroutines, progress, semaphore,
          network_used, merge_invoked, output_format, args_list, jobs_run,
          configured, content_length, returncode>>

\* ------------------------------------------------------------ arithmetic
Max(a, b) == IF a >= b THEN a ELSE b

RECURSIVE SumSeq(_)
SumSeq(s) == IF s = <<>> THEN 0 ELSE Head(s) + SumSeq(Tail(s))

\* ---------------------------------------------------------- slice_blocks
\* The assert of slice_blocks: reached only with both sizes given.
slice_blocks_raises(start, total_size, block_size) ==
    /\ total_size # None
    /\ block_size # None
    /\ ~(start <= total_size)

\* len(range(start, total_size, block_size))
RangeLen(start, total_size, block_size) ==
    IF total_size <= start THEN 0
    ELSE (total_size - start + block_size - 1) \div block_size

\* slice_blocks without lines 46-50: the last block keeps the full size.
slice_blocks_no_shrink(start, total_size, block_size) ==
    IF total_size = None THEN << <<0, None>> >>
    ELSE IF block_size = None THEN << <<0, total_size - 1>> >>
    ELSE [i \in 1..RangeLen(start, total_size, block_size) |->
             <<start + (i - 1) * block_size, block_size>>]

\* The (start, size) list of slice_blocks, each block a pair <<start, size>>.
slice_blocks(start, total_size, block_size) ==
    IF total_size = None THEN << <<0, None>> >>
    ELSE IF block_size = None THEN << <<0, total_size - 1>> >>
    ELSE LET n == RangeLen(start, total_size, block_size)
             offset_list == [i \in 1..n |-> <<start + (i - 1) * block_size, block_size>>]
             q == (total_size - start) \div block_size
         IN  IF (total_size - start) % block_size # 0
             THEN [offset_list EXCEPT ![n] =
                      <<start + q * block_size, total_size - start - q * block_size>>]
             ELSE offset_list


\* ------------------------------------------------------- AsyncFileBuffer
\* AsyncFileBuffer(path, overwrite): a fresh file under overwrite, else the
\* file as it is (created when missing).
OpenFile(file, overwrite) ==
    [exists |-> TRUE, data |-> IF overwrite THEN <<>> ELSE file.data]

OpenedBuffer(file) ==
    [state |-> "open", written_size |-> Len(file.data), pending |-> {}, closes |-> 0]

\* n expected bytes landing on disk at offset.
WriteAt(data, offset, n) ==
    IF n <= 0 THEN data
    ELSE [i \in 1..Max(Len(data), offset + n) |->
            IF i - 1 >= offset /\ i - 1 < offset + n THEN TRUE
            ELSE IF i <= Len(data) THEN data[i]
            ELSE FALSE]

\* written_size follows the contiguous frontier: it takes in every pending
\* chunk that starts where it stands.
RECURSIVE Advance(_, _)
Advance(written_size, pending) ==
    IF \E c \in pending : c[1] = written_size
    THEN LET c == CHOOSE c \in pending : c[1] = written_size
         IN  Advance(written_size + c[2], pending \ {c})
    ELSE <<written_size, pending>>

\* buffer.write(chunk, offset) with len(chunk) = n: the counter moves only
\* when the chunk starts at the frontier; a chunk ahead of it waits.
BufferWrite(buf, offset, n) ==
    IF n <= 0 THEN buf
    ELSE IF offset < buf.written_size THEN buf
    ELSE LET a == Advance(buf.written_size, buf.pending \cup {<<offset, n>>})
         IN  [buf EXCEPT !.written_size = a[1], !.pending = a[2]]

\* buffer.close()
BufferClose(buf) ==
    IF buf.state = "none" THEN buf
    ELSE [buf EXCEPT !.state = "closed", !.closes = @ + 1]

\* ---------------------------------------------------------------- xmerge
\* Round-robin merge of the per-stream coroutine lists.
RECURSIVE xmerge(_)
xmerge(lists) ==
    LET ne == SelectSeq(lists, LAMBDA l : Len(l) > 0)
    IN  IF Len(ne) = 0 THEN <<>>
        ELSE [i \in 1..Len(ne) |-> Head(ne[i])] \o xmerge([i \in 1..Len(ne) |-> Tail(ne[i])])

\* ------------------------------------------------------------------ Init
NoBuffer == [state |-> "none", written_size |-> 0, pending |-> {}, closes |-> 0]

\* A temp file left by an earlier run: k expected bytes, or no file.
PartialFile(k) == [exists |-> k > 0, data |-> [i \in 1..k |-> TRUE]]

\* will_download_video / will_download_audio (lines 209-210).
WillDownload(ep, opts) ==
    [video |-> ep.video # "none" /\ opts.require_video,
     audio |-> ep.audio # "none" /\ opts.require_audio]

VideoCodecs == {"avc", "hevc"}
AudioCodecs == {"mp4a", "fLaC"}
Episodes == [video : VideoCodecs \cup {"none"}, audio : AudioCodecs \cup {"none"}]

\* The answers of Fetcher.get_size for the streams that will be probed: a
\* size up to max, or None when the server gives none.
ContentLengths(wd, max) ==
    {cl \in [Streams -> {None} \cup (1..max)] :
        \A s \in Streams : ~wd[s] => cl[s] = None}

\* One job, save codecs and formats at their defaults, every download setting.
Init ==
    /\ pc = "Selecting"
    /\ failure = "none"
    /\ options \in [num_workers : 1..MaxWorkers,
                    block_size : {None} \cup (1..MaxBlock),
                    overwrite : BOOLEAN,
                    video_save_codec : {"copy"},
                    audio_save_codec : {"copy"},
                    output_format : {"infer"},
                    output_format_audio_only : {"infer"},
                    require_video : {TRUE},
                    require_audio : {TRUE}]
    /\ episode \in [video : {"avc", "none"}, audio : {"mp4a", "none"}]
    /\ will_download = WillDownload(episode, options)
    /\ output_exists \in BOOLEAN
    /\ \E k \in [Streams -> 0..MaxResume] :
          tmp_file = [s \in Streams |-> PartialFile(k[s])]
    /\ buffers = [s \in Streams |-> NoBuffer]
    /\ content_length \in ContentLengths(will_download, MaxSize)
    /\ sizes = [s \in Streams |-> None]
    /\ coroutines_list = <<>>
    /\ coroutines = <<>>
    /\ progress = "none"
    /\ semaphore = 0
    /\ network_used = FALSE
    /\ merge_invoked = FALSE
    /\ returncode = None
    /\ output_format = "none"
    /\ args_list = <<>>
    /\ jobs_run = 1
    /\ configured = options

\* Jobs on one options object, every codec and container setting, no temp
\* file left by an earlier run.
JobInit ==
    /\ pc = "Selecting"
    /\ failure = "none"
    /\ options \in [num_workers : {1},
                    block_size : {1},
                    overwrite : BOOLEAN,
                    video_save_codec : VideoCodecs \cup {"copy"},
                    audio_save_codec : {"mp4a", "copy"},
                    output_format : {"infer", "mkv"},
                    output_format_audio_only : {"infer", "m4a"},
                    require_video : BOOLEAN,
                    require_audio : BOOLEAN]
    /\ episode \in Episodes
    /\ will_download = WillDownload(episode, options)
    /\ output_exists \in BOOLEAN
    /\ tmp_file = [s \in Streams |-> PartialFile(0)]
    /\ buffers = [s \in Streams |-> NoBuffer]
    /\ content_length \in ContentLengths(will_download, 1)
    /\ sizes = [s \in Streams |-> None]
    /\ coroutines_list = <<>>
    /\ coroutines = <<>>
    /\ progress = "none"
    /\ semaphore = 0
    /\ network_used = FALSE
    /\ merge_invoked = FALSE
    /\ returncode = None
    /\ output_format = "none"
    /\ args_list = <<>>
    /\ jobs_run = 1
    /\ configured = options

\* ------------------------------------------------------ start_downloader
\* set_semaphore handed one permit too many.
set_semaphore_off_by_one(opts) == opts.num_workers + 1

\* Fetcher.set_semaphore(options["num_workers"])
set_semaphore(opts) == opts.num_workers

OpenPc(s) == IF s = "video" THEN "OpenVideo" ELSE "OpenAudio"
ProbePc(s) == IF s = "video" THEN "ProbeVideo" ELSE "ProbeAudio"
\* What follows a stream's block in download_video_and_audio.
AfterStream(s) ==
    IF s = "video" /\ will_download["audio"] THEN "OpenAudio" ELSE "Submit"

\* output_format of lines 220-235 with the MKV case left out.
OutputFormat_no_mkv(wd, ep, opts) ==
    IF ~wd.video
    THEN IF opts.output_format_audio_only # "infer"
         THEN "." \o opts.output_format_audio_only
         ELSE IF wd.audio /\ ep.audio = "fLaC" THEN ".flac" ELSE ".aac"
    ELSE IF opts.output_format # "infer"
         THEN "." \o opts.output_format
         ELSE ".mp4"

\* output_format of lines 220-235.
OutputFormat(wd, ep, opts) ==
    IF ~wd.video
    THEN IF opts.output_format_audio_only # "infer"
         THEN "." \o opts.output_format_audio_only
         ELSE IF wd.audio /\ ep.audio = "fLaC" THEN ".flac" ELSE ".aac"
    ELSE IF opts.output_format # "infer"
         THEN "." \o opts.output_format
         ELSE IF wd.audio /\ ep.audio = "fLaC" THEN ".mkv" ELSE ".mp4"

\* start_downloader without the early return of lines 262-264: an existing
\* output is deleted and downloaded again whatever overwrite says.
start_downloader_no_skip ==
    /\ pc = "Selecting"
    /\ output_format' = OutputFormat(will_download, episode, options)
    /\ UNCHANGED <<episode, args_list, jobs_run, configured, content_length,
                   returncode>>
    /\ output_exists' = FALSE
    /\ IF ~(will_download["audio"] \/ will_download["video"])
       THEN /\ pc' = "NothingToDo"
            /\ UNCHANGED semaphore
       ELSE /\ semaphore' = options.num_workers
            /\ pc' = IF will_download["video"] THEN "OpenVideo" ELSE "OpenAudio"
    /\ UNCHANGED <<failure, options, will_download, tmp_file, buffers, sizes,
                   coroutines_list, coroutines, progress, network_used, merge_invoked>>

\* start_downloader up to the first await of download_video_and_audio.
start_downloader ==
    /\ pc = "Selecting"
    /\ output_format' = OutputFormat(will_download, episode, options)
    /\ UNCHANGED <<episode, args_list, jobs_run, configured, content_length,
                   returncode>>
    /\ IF output_exists /\ ~options.overwrite
       THEN /\ pc' = "Skipped"
            /\ UNCHANGED <<output_exists, semaphore>>
       ELSE /\ output_exists' = FALSE
            /\ IF ~(will_download["audio"] \/ will_download["video"])
               THEN /\ pc' = "NothingToDo"
                    /\ UNCHANGED semaphore
               ELSE /\ semaphore' = set_semaphore(options)
                    /\ pc' = IF will_download["video"] THEN "OpenVideo" ELSE "OpenAudio"
    /\ UNCHANGED <<failure, options, will_download, tmp_file, buffers, sizes,
                   coroutines_list, coroutines, progress, network_used, merge_invoked>>

\* ---------------------------------------------- download_video_and_audio
\* vbuf = await AsyncFileBuffer(video_path, overwrite=options["overwrite"])
OpenBuffer(s) ==
    /\ pc = OpenPc(s)
    /\ UNCHANGED <<episode, output_format, args_list, jobs_run, configured,
                   content_length, returncode>>
    /\ \E ok \in BOOLEAN :
          IF ok
          THEN /\ tmp_file' = [tmp_file EXCEPT ![s] = OpenFile(@, options.overwrite)]
               /\ buffers' = [buffers EXCEPT ![s] = OpenedBuffer(tmp_file'[s])]
               /\ pc' = ProbePc(s)
               /\ UNCHANGED failure
          ELSE /\ pc' = "Failed"
               /\ failure' = "open"
               /\ UNCHANGED <<tmp_file, buffers>>
    /\ UNCHANGED <<options, will_download, output_exists, sizes, coroutines_list,
                   coroutines, progress, semaphore, network_used, merge_invoked>>

\* The coroutines of one stream, one per block of slice_blocks.
StreamCoroutines(s, blocks) ==
    [i \in 1..Len(blocks) |->
        [stream |-> s, offset |-> blocks[i][1], size |-> blocks[i][2], st |-> "pending"]]

\* vsize = await Fetcher.get_size(...), the list comprehension over
\* slice_blocks, and the bookkeeping of lines 111-112.
GetSize(s) ==
    /\ pc = ProbePc(s)
    /\ UNCHANGED <<episode, output_format, args_list, jobs_run, configured,
                   content_length, returncode>>
    /\ network_used' = TRUE
    /\ \E ok \in BOOLEAN :
          LET size == content_length[s] IN
          IF ~ok
          THEN /\ pc' = "Failed"
               /\ failure' = "probe"
               /\ UNCHANGED <<sizes, coroutines_list>>
          ELSE IF slice_blocks_raises(buffers[s].written_size, size, options.block_size)
          THEN /\ pc' = "Failed"
               /\ failure' = "assert"
               /\ UNCHANGED <<sizes, coroutines_list>>
          ELSE /\ coroutines_list' = Append(coroutines_list,
                      StreamCoroutines(s, slice_blocks(buffers[s].written_size, size,
                                                       options.block_size)))
               /\ sizes' = [sizes EXCEPT ![s] = size]
               /\ pc' = AfterStream(s)
               /\ UNCHANGED failure
    /\ UNCHANGED <<options, will_download, output_exists, tmp_file, buffers,
                   coroutines, progress, semaphore, merge_invoked>>

\* RECURSIVE helper: the lists one after the other.
RECURSIVE Concat(_)
Concat(lists) == IF Len(lists) = 0 THEN <<>> ELSE Head(lists) \o Concat(Tail(lists))

\* Submit without xmerge: the video coroutines first, then the audio ones.
Submit_video_first ==
    /\ pc = "Submit"
    /\ UNCHANGED <<episode, output_format, args_list, jobs_run, configured,
                   content_length, returncode>>
    /\ coroutines' = Concat(coroutines_list)
    /\ progress' = "running"
    /\ pc' = "Gather"
    /\ UNCHANGED <<failure, options, will_download, output_exists, tmp_file, buffers,
                   sizes, coroutines_list, semaphore, network_used, merge_invoked>>

\* coroutines = list(xmerge(*coroutines_list)); show_progress is put in
\* front and asyncio.gather starts them all.
Submit ==
    /\ pc = "Submit"
    /\ UNCHANGED <<episode, output_format, args_list, jobs_run, configured,
                   content_length, returncode>>
    /\ coroutines' = xmerge(coroutines_list)
    /\ progress' = "running"
    /\ pc' = "Gather"
    /\ UNCHANGED <<failure, options, will_download, output_exists, tmp_file, buffers,
                   sizes, coroutines_list, semaphore, network_used, merge_invoked>>

\* ---------------------------------------------------------------- Fetcher
Pending(i) == coroutines[i].st = "pending"
Running(i) == coroutines[i].st = "running"

\* The waiters of the semaphore are served in the order they asked, which
\* is the order asyncio.gather started the coroutines.
FirstPending(i) ==
    /\ Pending(i)
    /\ \A j \in 1..(i - 1) : ~Pending(j)

\* The bytes a request for `size` bytes delivers; an unbounded request
\* delivers the whole object, whose length is then anything.
Delivered(size) == IF size = None THEN 0..MaxSize ELSE {size}

\* async with cls.semaphore: the request starts once a permit is free.
FetchAcquire(i) ==
    /\ FirstPending(i)
    /\ UNCHANGED <<episode, output_format, args_list, jobs_run, configured,
                   content_length, returncode>>
    /\ semaphore > 0
    /\ semaphore' = semaphore - 1
    /\ coroutines' = [coroutines EXCEPT ![i].st = "running"]
    /\ network_used' = TRUE
    /\ UNCHANGED <<pc, failure, options, will_download, output_exists, tmp_file,
                   buffers, sizes, coroutines_list, progress, merge_invoked>>

\* The task's bytes reach the buffer and the file.
FetchWrite(i, n) ==
    LET t == coroutines[i]
    IN  /\ tmp_file' = [tmp_file EXCEPT ![t.stream].data = WriteAt(@, t.offset, n)]
        /\ buffers' = [buffers EXCEPT ![t.stream] = BufferWrite(@, t.offset, n)]

\* download_file_with_offset ends: every byte written, the permit returned.
FetchComplete(i) ==
    /\ Running(i)
    /\ UNCHANGED <<episode, output_format, args_list, jobs_run, configured,
                   content_length, returncode>>
    /\ \E n \in Delivered(coroutines[i].size) : FetchWrite(i, n)
    /\ semaphore' = semaphore + 1
    /\ coroutines' = [coroutines EXCEPT ![i].st = "done"]
    /\ UNCHANGED <<pc, failure, options, will_download, output_exists, sizes,
                   coroutines_list, progress, network_used, merge_invoked>>

\* All mirrors exhausted after p bytes were streamed: the coroutine raises,
\* and leaving the async with returns the permit.
FetchFail(i) ==
    /\ Running(i)
    /\ UNCHANGED <<episode, output_format, args_list, jobs_run, configured,
                   content_length, returncode>>
    /\ \E n \in Delivered(coroutines[i].size) :
          \E p \in 0..Max(0, n - 1) : FetchWrite(i, p)
    /\ semaphore' = semaphore + 1
    /\ coroutines' = [coroutines EXCEPT ![i].st = "failed"]
    /\ UNCHANGED <<pc, failure, options, will_download, output_exists, sizes,
                   coroutines_list, progress, network_used, merge_invoked>>

\* ---------------------------------------------------------- show_progress
\* sum(filter_none_value(sizes))
TotalSize ==
    SumSeq([i \in 1..2 |-> LET s == IF i = 1 THEN "video" ELSE "audio"
                           IN  IF sizes[s] = None THEN 0 ELSE sizes[s]])

\* The bytes the buffers handed to show_progress report.
WrittenSize ==
    SumSeq([i \in 1..2 |-> LET s == IF i = 1 THEN "video" ELSE "audio"
                           IN  IF buffers[s].state = "none" THEN 0
                               ELSE buffers[s].written_size])

\* show_progress returns once the bytes done reach the total.
ShowProgressDone ==
    /\ progress = "running"
    /\ UNCHANGED <<episode, output_format, args_list, jobs_run, configured,
                   content_length, returncode>>
    /\ WrittenSize >= TotalSize
    /\ progress' = "done"
    /\ UNCHANGED <<pc, failure, options, will_download, output_exists, tmp_file,
                   buffers, sizes, coroutines_list, coroutines, semaphore,
                   network_used, merge_invoked>>

\* --------------------------------------------------------- asyncio.gather
AllDone == \A i \in 1..Len(coroutines) : coroutines[i].st = "done"
SomeFailed == \E i \in 1..Len(coroutines) : coroutines[i].st = "failed"

\* gather(..., return_exceptions=True): the exception is dropped and the
\* function goes on to close the buffers and return.
GatherRaise_swallowed ==
    /\ pc = "Gather"
    /\ UNCHANGED <<episode, output_format, args_list, jobs_run, configured,
                   content_length, returncode>>
    /\ SomeFailed
    /\ buffers' = [s \in Streams |-> BufferClose(buffers[s])]
    /\ pc' = "Merging"
    /\ UNCHANGED <<failure, options, will_download, output_exists, tmp_file, sizes,
                   coroutines_list, coroutines, progress, semaphore, network_used,
                   merge_invoked>>

\* await asyncio.gather(*coroutines) raises the first exception; nothing
\* after line 128 runs and the other coroutines are left as they are.
GatherRaise ==
    /\ pc = "Gather"
    /\ UNCHANGED <<episode, output_format, args_list, jobs_run, configured,
                   content_length, returncode>>
    /\ SomeFailed
    /\ pc' = "Failed"
    /\ failure' = "fetch"
    /\ UNCHANGED <<options, will_download, output_exists, tmp_file, buffers, sizes,
                   coroutines_list, coroutines, progress, semaphore, network_used,
                   merge_invoked>>

ClosePc(s) == IF s = "video" THEN "CloseVideo" ELSE "CloseAudio"

\* await asyncio.gather(*coroutines) returns; the close loop comes next.
GatherReturn ==
    /\ pc = "Gather"
    /\ UNCHANGED <<episode, output_format, args_list, jobs_run, configured,
                   content_length, returncode>>
    /\ AllDone
    /\ progress = "done"
    /\ pc' = IF will_download["video"] THEN "CloseVideo" ELSE "CloseAudio"
    /\ UNCHANGED <<failure, options, will_download, output_exists, tmp_file, buffers,
                   sizes, coroutines_list, coroutines, progress, semaphore,
                   network_used, merge_invoked>>

\* await buffer.close() of lines 131-133 for one buffer: it returns, or it
\* raises and the buffers after it stay open.
CloseBuffer(s) ==
    /\ pc = ClosePc(s)
    /\ \E ok \in BOOLEAN :
          IF ok
          THEN /\ buffers' = [buffers EXCEPT ![s] = BufferClose(@)]
               /\ pc' = IF s = "video" /\ will_download["audio"]
                        THEN "CloseAudio" ELSE "Merging"
               /\ UNCHANGED failure
          ELSE /\ pc' = "Failed"
               /\ failure' = "close"
               /\ UNCHANGED buffers
    /\ UNCHANGED <<options, episode, will_download, output_exists, tmp_file, sizes,
                   coroutines_list, coroutines, progress, semaphore, network_used,
                   merge_invoked, output_format, args_list, jobs_run, configured,
                   content_length, returncode>>

\* ------------------------------------------------- merge_video_and_audio
\* video_path.unlink() / audio_path.unlink()
Unlink(file) == [exists |-> FALSE, data |-> <<>>]

\* video / audio as lines 273-274 hand them on: the codec, "none" for None.
Video == IF will_download["video"] THEN episode["video"] ELSE "none"
Audio == IF will_download["audio"] THEN episode["audio"] ELSE "none"

\* vtag set only for the copy of an HEVC source.
vtag_copy_only(video, opts) ==
    IF opts.video_save_codec = "copy" /\ video # "none" /\ video = "hevc"
    THEN "hvc1" ELSE "none"

\* vtag of lines 152-156, "none" for None.
vtag(video, opts) ==
    IF \/ opts.video_save_codec = "hevc"
       \/ (opts.video_save_codec = "copy" /\ video # "none" /\ video = "hevc")
    THEN "hvc1" ELSE "none"

\* options after lines 158-161.
RewriteSaveCodecs(video, audio, opts) ==
    [opts EXCEPT
        !.video_save_codec = IF video # "none" /\ video = @ THEN "copy" ELSE @,
        !.audio_save_codec = IF audio # "none" /\ audio = @ THEN "copy" ELSE @]

\* args_list of lines 163-173, flattened as line 175 does; opts are the
\* options after the rewrite.
ArgsList(video, audio, opts, tag) ==
    (IF video # "none" THEN <<"-i", "video_path">> ELSE <<>>)
    \o (IF audio # "none" THEN <<"-i", "audio_path">> ELSE <<>>)
    \o (IF video # "none" THEN <<"-vcodec", opts.video_save_codec>> ELSE <<>>)
    \o (IF audio # "none" THEN <<"-acodec", opts.audio_save_codec>> ELSE <<>>)
    \o <<"-strict", "unofficial">>
    \o (IF tag # "none" THEN <<"-tag:v", tag>> ELSE <<>>)
    \o <<"-threads", "cpu_count">>
    \o <<"-y", "output_path">>

\* ffmpeg.exec(...) of line 175, whose result is not looked at: the muxer
\* exits 0, or it exits non-zero and exec either returns all the same or
\* raises. The lines after it run whenever it returned.
merge_video_and_audio ==
    /\ pc = "Merging"
    /\ merge_invoked' = TRUE
    /\ options' = RewriteSaveCodecs(Video, Audio, options)
    /\ args_list' = ArgsList(Video, Audio, options', vtag(Video, options))
    /\ UNCHANGED <<episode, output_format, jobs_run, configured, content_length>>
    /\ \E exec \in {"zero", "nonzero", "raises"} :
          IF exec = "raises"
          THEN /\ returncode' = 1
               /\ pc' = "Failed"
               /\ failure' = "muxer"
               /\ UNCHANGED <<tmp_file, output_exists>>
          ELSE /\ returncode' = IF exec = "zero" THEN 0 ELSE 1
               /\ tmp_file' = [s \in Streams |->
                                 IF will_download[s] THEN Unlink(tmp_file[s])
                                 ELSE tmp_file[s]]
               /\ output_exists' = (exec = "zero")
               /\ pc' = "Done"
               /\ UNCHANGED failure
    /\ UNCHANGED <<will_download, buffers, sizes, coroutines_list,
                   coroutines, progress, semaphore, network_used>>

\* ------------------------------------------------------------------ Next
Next ==
    \/ start_downloader
    \/ \E s \in Streams : OpenBuffer(s)
    \/ \E s \in Streams : GetSize(s)
    \/ Submit
    \/ \E i \in 1..Len(coroutines) : FetchAcquire(i)
    \/ \E i \in 1..Len(coroutines) : FetchComplete(i)
    \/ \E i \in 1..Len(coroutines) : FetchFail(i)
    \/ ShowProgressDone
    \/ GatherRaise
    \/ GatherReturn
    \/ \E s \in Streams : CloseBuffer(s)
    \/ merge_video_and_audio

Spec == Init /\ [][Next]_vars

\* --------------------------------------------------------------- JobSpec
\* The caller starts the next episode's job with the same options object,
\* once nothing of the job before is still running.
NextJob ==
    /\ pc \in {"Skipped", "NothingToDo", "Done", "Failed"}
    /\ \A i \in 1..Len(coroutines) : coroutines[i].st \in {"done", "failed"}
    /\ jobs_run < MaxJobs
    /\ jobs_run' = jobs_run + 1
    /\ pc' = "Selecting"
    /\ failure' = "none"
    /\ merge_invoked' = FALSE
    /\ network_used' = FALSE
    /\ returncode' = None
    /\ output_format' = "none"
    /\ args_list' = <<>>
    /\ episode' \in Episodes
    /\ will_download' = WillDownload(episode', options)
    /\ content_length' \in ContentLengths(will_download', 1)
    /\ output_exists' \in BOOLEAN
    /\ tmp_file' = [s \in Streams |-> PartialFile(0)]
    /\ buffers' = [s \in Streams |-> NoBuffer]
    /\ sizes' = [s \in Streams |-> None]
    /\ coroutines_list' = <<>>
    /\ coroutines' = <<>>
    /\ progress' = "none"
    /\ UNCHANGED <<options, semaphore, configured>>

JobNext ==
    \/ Next
    \/ NextJob

JobSpec == JobInit /\ [][JobNext]_vars

\* The event loop runs whatever is ready: a step that stays possible is
\* taken in the end.
FairSpec == Spec /\ WF_vars(Next)

\* =================================================================
\* Properties
\* =================================================================
\* Where a stream's coroutine list sits in coroutines_list.
PlanIndex(s) == IF s = "video" THEN 1 ELSE IF will_download["video"] THEN 2 ELSE 1

\* The stream's blocks have been sliced and no coroutine has started, so
\* the buffer's written_size is still the resume offset they were cut from.
Planned(s) ==
    /\ will_download[s]
    /\ Len(coroutines_list) >= PlanIndex(s)
    /\ coroutines = <<>>

Plan(s) == coroutines_list[PlanIndex(s)]

\* The byte offsets a block list asks for.
Covered(blocks) ==
    UNION {blocks[i].offset .. (blocks[i].offset + blocks[i].size - 1) :
              i \in 1..Len(blocks)}

ChunkedPlan(s) ==
    /\ Planned(s)
    /\ sizes[s] # None
    /\ options.block_size # None

\* C1: with 0 <= r <= T and block size b > 0 the blocks of slice_blocks(r, T, b)
\* ascend, each starts where the one before ends, together they are exactly
\* the bytes [r, T), and the last block's size is (T - r) mod b when that is
\* not zero and b otherwise.
C1_SliceBlocksCoverResumeToTotal ==
    \A s \in Streams :
        ChunkedPlan(s) =>
            LET r == buffers[s].written_size
                T == sizes[s]
                b == options.block_size
                B == Plan(s)
                n == Len(B)
            IN  /\ r <= T
                /\ \A i \in 1..n : B[i].size > 0
                /\ n > 0 => B[1].offset = r
                /\ \A i \in 1..(n - 1) : B[i + 1].offset = B[i].offset + B[i].size
                /\ Covered(B) = r..(T - 1)
                /\ SumSeq([i \in 1..n |-> B[i].size]) = T - r
                /\ n > 0 => B[n].size = (IF (T - r) % b # 0 THEN (T - r) % b ELSE b)

\* C1's case: a plan of several blocks whose last block is the remainder.
C1_Witness ==
    \E s \in Streams :
        /\ ChunkedPlan(s)
        /\ Len(Plan(s)) >= 2
        /\ Plan(s)[Len(Plan(s))].size < options.block_size

\* A stream whose size is known went through the probe.
Known(s) == will_download[s] /\ sizes[s] # None

\* The stream's only coroutine ended without an error.
SingleTaskDone(s) ==
    \A i \in 1..Len(coroutines) :
        coroutines[i].stream = s => coroutines[i].st = "done"

\* C2: merge_video_and_audio is entered only when every selected stream of
\* known size has written_size equal to that size and the only fetch task
\* of every stream of unknown size ended without error, whatever the block
\* size (bounded or null) and the starting written_size.
C2_MergeOnlyWhenComplete ==
    pc = "Merging" =>
        \A s \in Streams :
            will_download[s] =>
                IF sizes[s] # None
                THEN buffers[s].written_size = sizes[s]
                ELSE SingleTaskDone(s)

\* The temp file holds the expected byte at every offset of [0, T).
FileComplete(s) ==
    /\ Len(tmp_file[s].data) >= sizes[s]
    /\ \A i \in 1..sizes[s] : tmp_file[s].data[i]

\* C3: once every planned block of a buffer of known size T is fetched, in
\* whatever order, and the buffer is closed, written_size = T and the file
\* holds the expected byte at every offset of [0, T).
C3_AllBlocksWrittenGivesWholeFile ==
    \A s \in Streams :
        (pc = "Merging" /\ Known(s) /\ buffers[s].state = "closed") =>
            /\ buffers[s].written_size = sizes[s]
            /\ FileComplete(s)

\* C4: resuming with overwrite = false from a partial file of length k < T,
\* the fetch tasks ask for exactly the bytes [k, T), whatever the block size
\* (null included).
C4_ResumePlansOnlyMissingBytes ==
    \A s \in Streams :
        (Planned(s) /\ sizes[s] # None /\ ~options.overwrite
            /\ buffers[s].written_size < sizes[s]) =>
            Covered(Plan(s)) = buffers[s].written_size .. (sizes[s] - 1)

\* The download phase has been left, by its return or by an exception.
LeftDownload == pc \in {"Merging", "Done", "Failed"}

\* C5: on every path out of the download phase each opened buffer has been
\* closed exactly once.
C5_EveryBufferClosedOnce ==
    LeftDownload =>
        \A s \in Streams : buffers[s].state # "none" => buffers[s].closes = 1

\* C6: once the failure of a fetch task has left the download phase, no
\* fetch task of the job is running or pending, and none writes afterwards.
C6_SiblingsCancelledOnFailure ==
    /\ []((pc = "Failed" /\ failure = "fetch") =>
            \A i \in 1..Len(coroutines) : coroutines[i].st \in {"done", "failed"})
    /\ [][(pc = "Failed" /\ failure = "fetch") =>
            (buffers' = buffers /\ tmp_file' = tmp_file)]_vars

\* The temp file of s is still there with all it held: as long, and every
\* expected byte still in place.
Kept(s) ==
    /\ tmp_file'[s].exists
    /\ Len(tmp_file'[s].data) >= Len(tmp_file[s].data)
    /\ \A i \in 1..Len(tmp_file[s].data) : tmp_file[s].data[i] => tmp_file'[s].data[i]

\* C7: after a fetch task failed for good the job leaves Downloading only
\* into Failed, merge_video_and_audio is never entered, and the temp files
\* of the opened buffers stay on disk, neither deleted nor truncated.
C7_FetchFailureFailsJobKeepsPartials ==
    /\ [](SomeFailed =>
            /\ pc \in {"Gather", "Failed"}
            /\ pc = "Failed" <=> failure = "fetch"
            /\ ~merge_invoked
            /\ \A s \in Streams : will_download[s] => tmp_file[s].exists)
    /\ [][SomeFailed => \A s \in Streams : will_download[s] => Kept(s)]_vars

\* C7's case: the failure has left start_downloader with a part of a
\* stream on disk.
C7_Witness ==
    /\ pc = "Failed"
    /\ failure = "fetch"
    /\ \E s \in Streams :
          /\ Known(s)
          /\ Len(tmp_file[s].data) > 0
          /\ Len(tmp_file[s].data) < sizes[s]

\* C8: the temp files of the downloaded streams are deleted exactly when
\* the muxer succeeded: the merge step ends in Done with every one of them
\* removed, or in Failed with the error surfaced and every one untouched.
C8_TempFilesDeletedIffMuxerSucceeded ==
    /\ [](\A s \in Streams :
            (will_download[s] /\ buffers[s].state # "none") =>
                (tmp_file[s].exists <=> pc # "Done"))
    /\ [](failure = "muxer" => pc = "Failed" /\ merge_invoked)
    /\ [][pc = "Merging" =>
            \/ /\ returncode' = 0
               /\ pc' = "Done"
               /\ failure' = "none"
               /\ \A s \in Streams : will_download[s] => ~tmp_file'[s].exists
            \/ /\ returncode' # 0
               /\ pc' = "Failed"
               /\ failure' = "muxer"
               /\ tmp_file' = tmp_file]_vars

\* C8's case: the muxer failed after both streams were downloaded.
C8_Witness ==
    /\ failure = "muxer"
    /\ \A s \in Streams : will_download[s] /\ Len(tmp_file[s].data) > 0

\* C9: with the output file present and overwrite false, start_downloader
\* ends in Skipped at once: no buffer opened, no probe, no fetch task, no
\* muxer, no error, and the output file still there.
C9_ExistingOutputIsSkipped ==
    /\ [](pc = "Skipped" =>
            /\ ~network_used
            /\ \A s \in Streams : buffers[s].state = "none"
            /\ coroutines_list = <<>> /\ coroutines = <<>>
            /\ progress = "none"
            /\ ~merge_invoked
            /\ failure = "none"
            /\ output_exists)
    /\ [][(pc = "Selecting" /\ output_exists /\ ~options.overwrite) =>
              (pc' = "Skipped" /\ tmp_file' = tmp_file)]_vars
    /\ [][pc = "Skipped" => pc' = "Skipped"]_vars

\* C9's case: a job with streams to download was skipped.
C9_Witness ==
    /\ pc = "Skipped"
    /\ will_download["video"] /\ will_download["audio"]

\* The fetch tasks that hold a permit.
Holders == {i \in 1..Len(coroutines) : coroutines[i].st = "running"}

\* C10: at most num_workers fetch tasks, video and audio together, hold a
\* permit; a task takes one only when one is free, and every permit taken
\* is back once its task has ended, in success or in failure.
C10_AtMostNumWorkersInFlight ==
    /\ [](Cardinality(Holders) <= options.num_workers)
    /\ [](pc \notin {"Selecting", "Skipped", "NothingToDo"} =>
            semaphore + Cardinality(Holders) = options.num_workers)
    /\ [][\A i \in 1..Len(coroutines) :
            (Len(coroutines') = Len(coroutines) /\ coroutines[i].st = "pending"
                /\ coroutines'[i].st = "running") => semaphore > 0]_vars

\* C10's case: every permit is taken by tasks of both streams while another
\* task waits.
C10_Witness ==
    /\ Cardinality(Holders) = options.num_workers
    /\ \E i \in Holders : coroutines[i].stream = "video"
    /\ \E i \in Holders : coroutines[i].stream = "audio"
    /\ \E i \in 1..Len(coroutines) : coroutines[i].st = "pending"

\* C11: the written_size of every buffer never decreases, and while the
\* stream's total size T is known written_size <= T, in every state from
\* the opening of a partial file on and for every block size.
C11_WrittenSizeMonotoneAndBounded ==
    /\ [](\A s \in Streams :
            (buffers[s].state # "none" /\ sizes[s] # None) =>
                buffers[s].written_size <= sizes[s])
    /\ [][\A s \in Streams : buffers'[s].written_size >= buffers[s].written_size]_vars

\* C12: with T known and a resume offset r > T, slice_blocks fails for
\* every block size (bounded or null): no block list and no fetch task ever
\* exists for a buffer whose written_size exceeds T.
C12_ResumeBeyondTotalFails ==
    \A s \in Streams :
        (Planned(s) /\ sizes[s] # None) => buffers[s].written_size <= sizes[s]

\* Stream s has a coroutine at a position after p.
HasLater(s, p) ==
    \E i \in (p + 1)..Len(coroutines) : coroutines[i].stream = s

\* The coroutines of stream s among the first p.
CountIn(s, p) == Cardinality({i \in 1..p : coroutines[i].stream = s})

\* C16: the fetch tasks are handed to gather in a round-robin merge: those
\* of one stream keep their ascending offsets, and in every prefix the
\* numbers of video and audio tasks differ by at most one while both
\* streams have tasks still to come.
C16_TasksInterleavedRoundRobin ==
    /\ \A i, j \in 1..Len(coroutines) :
          (i < j /\ coroutines[i].stream = coroutines[j].stream) =>
              coroutines[i].offset < coroutines[j].offset
    /\ \A p \in 0..Len(coroutines) :
          (HasLater("video", p) /\ HasLater("audio", p)) =>
              /\ CountIn("video", p) - CountIn("audio", p) <= 1
              /\ CountIn("audio", p) - CountIn("video", p) <= 1

\* C16's case: both streams were sliced into several blocks.
C16_Witness ==
    /\ CountIn("video", Len(coroutines)) >= 3
    /\ CountIn("audio", Len(coroutines)) >= 2

\* C17: with a null block size and T known, slice_blocks returns the one
\* block (0, T - 1) whatever r <= T, and that block, read as (start, size),
\* covers every byte of [0, T).
C17_NullBlockSizeCoversWholeFile ==
    \A s \in Streams :
        (Planned(s) /\ sizes[s] # None /\ options.block_size = None
            /\ buffers[s].written_size <= sizes[s]) =>
            /\ Len(Plan(s)) = 1
            /\ Plan(s)[1].offset = 0
            /\ Plan(s)[1].size = sizes[s] - 1
            /\ Covered(Plan(s)) = 0..(sizes[s] - 1)

\* C20: a job that ends in Skipped or NothingToDo leaves an output file
\* that was there in place, whatever overwrite says.
C20_NoDownloadKeepsOutput ==
    [][(pc = "Selecting" /\ pc' \in {"Skipped", "NothingToDo"}) =>
          output_exists' = output_exists]_vars

\* The orchestrator state a position belongs to.
StateOf(p) ==
    IF p \in {"OpenVideo", "ProbeVideo", "OpenAudio", "ProbeAudio", "Submit", "Gather",
              "CloseVideo", "CloseAudio"}
    THEN "Downloading"
    ELSE p

Transitions ==
    {<<"Selecting", "Skipped">>, <<"Selecting", "NothingToDo">>,
     <<"Selecting", "Downloading">>, <<"Downloading", "Merging">>,
     <<"Merging", "Done">>, <<"Downloading", "Failed">>, <<"Merging", "Failed">>}

Terminal == pc \in {"Skipped", "NothingToDo", "Done", "Failed"}

\* C15: a run takes only the transitions Selecting -> Skipped | NothingToDo,
\* Selecting -> Downloading -> Merging -> Done, Downloading -> Failed and
\* Merging -> Failed; Merging is entered only from a download phase without
\* error and Done only from a merge whose muxer succeeded; and, the
\* scheduling being fair, the job ends in Skipped,
\* NothingToDo, Done or Failed.
C15_StateMachineAndTermination ==
    /\ [][StateOf(pc') # StateOf(pc) => <<StateOf(pc), StateOf(pc')>> \in Transitions]_vars
    /\ [][(pc # "Merging" /\ pc' = "Merging") => (failure = "none" /\ ~SomeFailed)]_vars
    /\ [][(pc # "Done" /\ pc' = "Done") => returncode' = 0]_vars
    /\ <>Terminal

\* The value that follows flag f in the muxer arguments, "none" without f.
ArgOf(args, f) ==
    IF \E i \in 1..(Len(args) - 1) : args[i] = f
    THEN args[(CHOOSE i \in 1..(Len(args) - 1) : args[i] = f) + 1]
    ELSE "none"

\* C13 as stated: with save codec hevc, an hevc video is copied and tagged
\* hvc1, and an avc video is transcoded to hevc and not tagged.
C13_AvcTranscodeUntagged ==
    [][(pc = "Merging" /\ pc' # "Merging" /\ options.video_save_codec = "hevc") =>
          /\ Video = "hevc" =>
                /\ ArgOf(args_list', "-vcodec") = "copy"
                /\ ArgOf(args_list', "-tag:v") = "hvc1"
          /\ Video = "avc" =>
                /\ ArgOf(args_list', "-vcodec") = "hevc"
                /\ ArgOf(args_list', "-tag:v") = "none"]_vars

\* C13: with save codec hevc, an hevc video gets the directive copy and the
\* tag hvc1; an avc video keeps the transcode to hevc and, its final codec
\* being HEVC, gets the tag hvc1 as well.
C13_HevcDirectiveAndTag ==
    [][(pc = "Merging" /\ pc' # "Merging" /\ options.video_save_codec = "hevc") =>
          /\ Video = "hevc" =>
                /\ ArgOf(args_list', "-vcodec") = "copy"
                /\ ArgOf(args_list', "-tag:v") = "hvc1"
          /\ Video = "avc" =>
                /\ ArgOf(args_list', "-vcodec") = "hevc"
                /\ ArgOf(args_list', "-tag:v") = "hvc1"]_vars

\* A merge has transcoded an avc video to hevc and tagged it.
C13_Witness ==
    /\ merge_invoked
    /\ pc \in {"Done", "Failed"}
    /\ Video = "avc"
    /\ ArgOf(args_list, "-vcodec") = "hevc"
    /\ ArgOf(args_list, "-tag:v") = "hvc1"

\* The codec of the video track the muxer writes: the source's under copy.
FinalVideoCodec(args, video) ==
    IF ArgOf(args, "-vcodec") = "copy" THEN video ELSE ArgOf(args, "-vcodec")

\* C14: the muxer arguments hold the video tag flag exactly when a video
\* stream is present and its final codec is HEVC; an audio-only merge has
\* no video tag flag.
C14_VideoTagIffFinalCodecHevc ==
    [][(pc = "Merging" /\ pc' # "Merging") =>
          ((\E i \in 1..Len(args_list') : args_list'[i] = "-tag:v")
              <=> (Video # "none" /\ FinalVideoCodec(args_list', Video) = "hevc"))]_vars

\* The extension of an audio-only output.
AudioOnlyFormat ==
    IF options.output_format_audio_only # "infer"
    THEN "." \o options.output_format_audio_only
    ELSE IF episode.audio = "fLaC" THEN ".flac" ELSE ".aac"

\* C18 as stated: the output extension is mp4 whenever a video will be
\* downloaded; with audio only it is the user's audio-only extension, else
\* flac for a FLAC source, else aac.
C18_VideoOutputIsMp4 ==
    pc # "Selecting" =>
        /\ will_download["video"] => output_format = ".mp4"
        /\ (~will_download["video"] /\ will_download["audio"]) =>
              output_format = AudioOnlyFormat

\* C18: when a video will be downloaded the output extension is the user's
\* output_format if one is given, else mkv when a FLAC audio is downloaded
\* with it, else mp4; with audio only it is the user's audio-only
\* extension, else flac for a FLAC source, else aac.
C18_OutputExtension ==
    pc # "Selecting" =>
        /\ will_download["video"] =>
              output_format =
                  IF options.output_format # "infer" THEN "." \o options.output_format
                  ELSE IF will_download["audio"] /\ episode.audio = "fLaC" THEN ".mkv"
                  ELSE ".mp4"
        /\ (~will_download["video"] /\ will_download["audio"]) =>
              output_format = AudioOnlyFormat

\* A job downloads a video with a FLAC audio, the format left to infer.
C18_Witness ==
    /\ pc = "Merging"
    /\ will_download["video"] /\ will_download["audio"]
    /\ episode.audio = "fLaC"
    /\ options.output_format = "infer"
    /\ output_format = ".mkv"

\* The directive the configured save codec gives a stream of codec c.
DirectiveFor(c, save_codec) == IF c = save_codec THEN "copy" ELSE save_codec

\* C19: no step changes options["video_save_codec"] or
\* options["audio_save_codec"], and every job's codec directives follow
\* from its own streams and the save codecs the user configured.
C19_SaveCodecsSurviveMerge ==
    /\ [][/\ options'.video_save_codec = options.video_save_codec
          /\ options'.audio_save_codec = options.audio_save_codec]_vars
    /\ [][(pc = "Merging" /\ pc' # "Merging") =>
             /\ Video # "none" =>
                   ArgOf(args_list', "-vcodec") =
                       DirectiveFor(Video, configured.video_save_codec)
             /\ Audio # "none" =>
                   ArgOf(args_list', "-acodec") =
                       DirectiveFor(Audio, configured.audio_save_codec)]_vars

====
